---- MODULE Spec2Model ----
(***************************************************************************)
(* Model of backend/product_search.py: ProductSearchAggregator, its file   *)
(* cache (_get_cache_key, _load_from_cache, _save_to_cache), the three     *)
(* provider clients and the thread-pool fan-out of search_all.             *)
(*                                                                         *)
(* Strings are sequences of one-character strings.  Time is counted in     *)
(* hours.  Prices (Python floats) are counted in cents.                    *)
(***************************************************************************)
EXTENDS Integers, Sequences, FiniteSets, TLC

VARIABLES
    creds,        \* provider -> BOOLEAN: the API key read by __init__ is set
    files,        \* the cache directory: path -> file content
    now,          \* datetime.now(), in hours
    calls,        \* number of search_all calls started so far
    pc,           \* position of the search_all call: "idle", "fanout", "returned"
    keyword,      \* arguments of the search_all call in progress / last returned
    max_results,
    use_cache,
    tstate,       \* provider -> state of its future: "none", "running", "hung", "done", "collected"
    tresult,      \* provider -> outcome of its future once it is done
    results,      \* the local list `results` of search_all
    errors,       \* platforms whose exception the as_completed loop caught and printed
    ret,          \* value returned by the last search_all call
    hit,          \* the last search_all call returned from the cache
    invoked,      \* number of provider client invocations so far
    requests,     \* provider -> number of requests.get calls issued so far
    saves,        \* number of direct _save_to_cache calls so far
    saved,        \* the (keyword, max_results) of the direct _save_to_cache calls so far
    lastSave,     \* the last direct _save_to_cache call: its arguments, key and time
    lastLoad,     \* the direct _load_from_cache call made since, and what it returned
    writer,       \* the _save_to_cache call that has opened its file and not closed it
    lastClient,   \* the last direct call of a provider client, and its outcome
    callers,      \* caller -> the search_all call of that caller, when callers overlap
    lastHandler,  \* the last call of a handler or of the memory manager, and its outcome
    users,        \* the users table of user_memory.db: its rows in insertion order
    interactions, \* the interactions table: its rows in insertion order
    logFile       \* ai_responses.jsonl: None while it does not exist, else its lines

vars == << creds, files, now, calls, pc, keyword, max_results, use_cache,
           tstate, tresult, results, errors, ret, hit, invoked, requests,
           saves, saved, lastSave, lastLoad, writer, lastClient,
           callers, lastHandler, users, interactions, logFile >>

appVars == << callers, lastHandler, users, interactions, logFile >>

cacheOpVars == << saves, saved, lastSave, lastLoad, writer, lastClient >>

callVars == << calls, pc, keyword, max_results, use_cache, tstate, tresult,
               results, errors, ret, hit, invoked, requests >>

-----------------------------------------------------------------------------
(* Bounds of the model *)

\* the clock runs from 0 to MaxTime hours
MaxTime == 48
\* the clock advances in steps of TickHours hours
TickHours == 24
\* number of search_all calls in one behaviour
MaxCalls == 2
\* number of direct _save_to_cache calls in one behaviour
MaxSaves == 2
\* number of rows of the interactions table
MaxInteractions == 2

\* cache_hours as passed by main.py (and the default of __init__)
CacheHours == 24

-----------------------------------------------------------------------------
(* Providers, in the order search_all submits them *)

Registration == << "eBay", "Amazon", "Google Shopping" >>

Providers == { Registration[i] : i \in 1..Len(Registration) }

\* Optional[List[Dict]]: None, or a list
None == [none |-> TRUE]

Some(v) == [val |-> v]

\* an exception leaving a method
Exc == [exc |-> TRUE]

-----------------------------------------------------------------------------
(* Python string and number conversions *)

\* str.lower() on one character
LowerChar(c) == CASE c = "S" -> "s"
                  [] c = "T" -> "t"
                  [] OTHER -> c

\* str.lower()
Lower(s) == [i \in 1..Len(s) |-> LowerChar(s[i])]

Digit(d) == CASE d = 0 -> "0" [] d = 1 -> "1" [] d = 2 -> "2" [] d = 3 -> "3"
              [] d = 4 -> "4" [] d = 5 -> "5" [] d = 6 -> "6" [] d = 7 -> "7"
              [] d = 8 -> "8" [] OTHER -> "9"

\* str(n) for a natural number, as the f-string formats max_results
RECURSIVE IntToStr(_)
IntToStr(n) == IF n < 10 THEN << Digit(n) >>
               ELSE IntToStr(n \div 10) \o << Digit(n % 10) >>

\* float(s) for the price strings the modelled backends send
PyFloat(s) == CASE s = "19.99" -> [ok |-> TRUE, val |-> 1999]
                [] s = "5.00"  -> [ok |-> TRUE, val |-> 500]
                [] OTHER       -> [ok |-> FALSE, val |-> 0]

\* datetime.isoformat(): the date and the hour of the day
IsoFormat(t) == << t \div 24, t % 24 >>

\* datetime.fromisoformat()
FromIsoFormat(s) == s[1] * 24 + s[2]

\* json.dump of a float: integer part and the two decimals
JsonDumpFloat(x) == << x \div 100, x % 100 >>

\* JsonLoadFloat reading the integer part only
JsonLoadFloatInt(tok) == tok[1] * 100

\* json.load of a number token
JsonLoadFloat(tok) == tok[1] * 100 + tok[2]

JsonDumpItem(item) == [item EXCEPT !.price = JsonDumpFloat(item.price)]

JsonLoadItem(enc) == [enc EXCEPT !.price = JsonLoadFloat(enc.price)]

\* json.dump of the result list
JsonDumpResults(rs) == [i \in 1..Len(rs) |-> JsonDumpItem(rs[i])]

\* json.load of the result list
JsonLoadResults(enc) == [i \in 1..Len(enc) |-> JsonLoadItem(enc[i])]

-----------------------------------------------------------------------------
(* The cache: _get_cache_key, _get_cache_path, _load_from_cache,
   _save_to_cache *)

\* CacheString without the limit
CacheStringNoLimit(kw, n) == Lower(kw)

\* f"{keyword.lower()}_{max_results}"
CacheString(kw, n) == Lower(kw) \o << "_" >> \o IntToStr(n)

\* hashlib.md5(...).hexdigest(): the digest is modelled as collision-free
Md5Hex(s) == << "md5" >> \o s

GetCacheKey(kw, n) == Md5Hex(CacheString(kw, n))

GetCachePath(kw, n) == << "cache", "/" >> \o GetCacheKey(kw, n) \o << ".json" >>

\* Expired with >= in place of >
ExpiredAtTtl(content, t) == t >= FromIsoFormat(content.timestamp) + CacheHours

\* with the clock at t, the stored entry is expired
Expired(content, t) == t > FromIsoFormat(content.timestamp) + CacheHours

\* A file of the cache directory holds the JSON object json.dump wrote (a
\* record), or text json.load cannot parse: nothing at all, as open(.., 'w')
\* leaves the file before the dump, or a part of an object.
EmptyFile == [text |-> "empty"]

PartialFile == [text |-> "partial"]

\* json.load(f) parses the content
Parses(content) == "text" \notin DOMAIN content

\* datetime.fromisoformat accepts the string
ValidIso(s) == Len(s) = 2

\* JSON objects that are not what _save_to_cache writes
NoTimestamp == [keyword |-> << "s" >>, max_results |-> 1, results |-> << >>]

BadTimestamp ==
    [keyword |-> << "s" >>, max_results |-> 1, timestamp |-> << >>, results |-> << >>]

NoResults == [keyword |-> << "s" >>, max_results |-> 1, timestamp |-> IsoFormat(0)]

\* the os.path.exists test and the try block of _load_from_cache: json.load,
\* cached_data['timestamp'], fromisoformat and cached_data['results'] raise
\* on a content they cannot handle
TryLoad(fs, t, kw, n) ==
    LET path == GetCachePath(kw, n) IN
    IF path \notin DOMAIN fs THEN None
    ELSE IF ~Parses(fs[path]) THEN Exc
    ELSE IF "timestamp" \notin DOMAIN fs[path] THEN Exc
    ELSE IF ~ValidIso(fs[path].timestamp) THEN Exc
    ELSE IF Expired(fs[path], t) THEN None
    ELSE IF "results" \notin DOMAIN fs[path] THEN Exc
    ELSE Some(JsonLoadResults(fs[path].results))

\* AfterLoad deleting the file of an entry it finds expired
AfterLoadEvict(fs, t, kw, n) ==
    IF /\ GetCachePath(kw, n) \in DOMAIN fs
       /\ TryLoad(fs, t, kw, n) = None
    THEN [p \in DOMAIN fs \ {GetCachePath(kw, n)} |-> fs[p]]
    ELSE fs

\* the directory after _load_from_cache: the file is opened for reading
\* only, and nothing is deleted or rewritten, whatever the outcome
AfterLoad(fs, t, kw, n) == fs

\* LoadFromCache without the except clause
LoadFromCacheNoCatch(fs, t, kw, n) == TryLoad(fs, t, kw, n)

\* _load_from_cache on the directory fs with the clock at t: `except
\* Exception` turns whatever the try block raises into None
LoadFromCache(fs, t, kw, n) ==
    IF TryLoad(fs, t, kw, n) = Exc THEN None ELSE TryLoad(fs, t, kw, n)

\* the dictionary cache_data, as json.dump writes it
CacheData(t, kw, n, rs) ==
    [ keyword     |-> kw,
      max_results |-> n,
      timestamp   |-> IsoFormat(t),
      results     |-> JsonDumpResults(rs) ]

\* SaveToCache storing only the first max_results results
SaveToCacheTruncated(fs, t, kw, n, rs) ==
    LET path == GetCachePath(kw, n) IN
    [p \in DOMAIN fs \cup {path} |->
        IF p = path
        THEN CacheData(t, kw, n, SubSeq(rs, 1, IF Len(rs) < n THEN Len(rs) ELSE n))
        ELSE fs[p]]

\* the directory after _save_to_cache with the clock at t
SaveToCache(fs, t, kw, n, rs) ==
    LET path == GetCachePath(kw, n) IN
    [p \in DOMAIN fs \cup {path} |->
        IF p = path THEN CacheData(t, kw, n, rs) ELSE fs[p]]

-----------------------------------------------------------------------------
(* The provider clients.  A client run ends by returning a list or by
   raising; resp is what the backend answers to requests.get: a transport
   error, or a payload holding a list of raw items. *)

TransportError == [kind |-> "transport_error", items |-> << >>]

\* a body response.json() cannot parse, such as the HTML page of a
\* non-success status
NotJson == [kind |-> "not_json", items |-> << >>]

\* a JSON body that is not an object: data.get raises AttributeError
BadShape == [kind |-> "bad_shape", items |-> << >>]

\* a non-success status with a JSON object that holds no items: the .get
\* defaults yield the empty list (the status code is never looked at)
ErrorBody == [kind |-> "error_body", items |-> << >>]

\* requests.get, response.json() or data.get raises
RaisesBeforeLoop(resp) == resp.kind \in {"transport_error", "not_json", "bad_shape"}

\* the client reaches requests.get: its API key is set
IssuesRequestAlways(cred) == TRUE

IssuesRequest(cred) == cred

Payload(items) == [kind |-> "payload", items |-> items]

Return(items) == [raised |-> FALSE, items |-> items]

Raise == [raised |-> TRUE, items |-> << >>]

\* Normalized without the platform tag
NormalizedUntagged(platform, raw, price) ==
    [ title    |-> raw.title,
      price    |-> price,
      currency |-> "USD",
      platform |-> "" ]

\* the dictionary a client appends for one raw item
Normalized(platform, raw, price) ==
    [ title    |-> raw.title,
      price    |-> price,
      currency |-> "USD",
      platform |-> platform ]

\* the item loop of search_ebay and of search_amazon_rapidapi: float() of a
\* non-numeric price raises out of the loop and out of the client
StrictItems(platform, payload) ==
    IF \E i \in 1..Len(payload) : ~PyFloat(payload[i].price).ok
    THEN Raise
    ELSE Return([i \in 1..Len(payload) |->
                    Normalized(platform, payload[i], PyFloat(payload[i].price).val)])

\* the item loop of search_google_shopping: try float() except price = 0.0
LenientItems(platform, payload) ==
    Return([i \in 1..Len(payload) |->
        Normalized(platform, payload[i],
                   IF PyFloat(payload[i].price).ok
                   THEN PyFloat(payload[i].price).val ELSE 0)])

\* search_ebay(keyword, max_results) with the backend answering resp
SearchEbay(cred, resp, n) ==
    IF ~cred THEN Return(<< >>)
    ELSE IF RaisesBeforeLoop(resp) THEN Raise
    ELSE StrictItems("eBay", resp.items)

\* search_amazon_rapidapi(keyword, max_results)
SearchAmazonRapidapi(cred, resp, n) ==
    IF ~cred THEN Return(<< >>)
    ELSE IF RaisesBeforeLoop(resp) THEN Raise
    ELSE StrictItems("Amazon", resp.items)

\* search_google_shopping(keyword, max_results)
SearchGoogleShopping(cred, resp, n) ==
    IF ~cred THEN Return(<< >>)
    ELSE IF RaisesBeforeLoop(resp) THEN Raise
    ELSE LenientItems("Google Shopping", resp.items)

\* the client search_all submits for each platform
Client(p, cred, resp, n) ==
    CASE p = "eBay"   -> SearchEbay(cred, resp, n)
      [] p = "Amazon" -> SearchAmazonRapidapi(cred, resp, n)
      [] OTHER        -> SearchGoogleShopping(cred, resp, n)

-----------------------------------------------------------------------------
(* Inputs *)

\* keywords of the search_all calls: "s", "S"
Keywords == { << "s" >>, << "S" >> }

\* keywords of the direct cache calls: "s", "S", " s ", "t"
CacheKeywords == Keywords \cup { << " ", "s", " " >>, << "t" >> }

\* result lists of the direct cache calls
ResultLists ==
    { << >>,
      << [title |-> "Lamp", price |-> 1999, currency |-> "USD", platform |-> "eBay"] >>,
      << [title |-> "Lamp", price |-> 1999, currency |-> "USD", platform |-> "eBay"],
         [title |-> "Desk", price |-> 500, currency |-> "USD", platform |-> "Amazon"] >> }

Limits == { 1, 2 }

\* the (keyword, max_results) of the repeated calls: two that differ in case
\* only, and one with another limit
Queries == { << << "S" >>, 1 >>, << << "s" >>, 1 >>, << << "s" >>, 2 >> }

Item1 == [title |-> "Lamp", price |-> "19.99"]

Item2 == [title |-> "Desk", price |-> "5.00"]

BadItem == [title |-> "Sofa", price |-> "abc"]

\* what a backend answers in the specification of repeated calls
Responses == { TransportError, Payload(<< Item1 >>) }

\* what a backend answers in the specification of one fan-out
FanoutResponses ==
    { TransportError, Payload(<< >>), Payload(<< Item1 >>),
      Payload(<< Item1, Item2 >>), Payload(<< BadItem, Item2 >>) }

-----------------------------------------------------------------------------
(* search_all *)

NoResult == Return(<< >>)

\* executor.submit of the three clients
Submit(kw, n, uc) ==
    /\ pc' = "fanout"
    /\ keyword' = kw
    /\ max_results' = n
    /\ use_cache' = uc
    /\ tstate' = [p \in Providers |-> "running"]
    /\ tresult' = [p \in Providers |-> NoResult]
    /\ results' = << >>
    /\ errors' = {}
    /\ hit' = FALSE
    /\ invoked' = invoked + Len(Registration)
    /\ UNCHANGED << ret, requests >>

\* ReturnCached re-slicing the cached list to max_results
ReturnCachedTruncated(kw, n, uc, cached) ==
    /\ pc' = "returned"
    /\ keyword' = kw
    /\ max_results' = n
    /\ use_cache' = uc
    /\ tstate' = [p \in Providers |-> "none"]
    /\ tresult' = [p \in Providers |-> NoResult]
    /\ results' = << >>
    /\ errors' = {}
    /\ hit' = TRUE
    /\ ret' = SubSeq(cached, 1, IF Len(cached) < n THEN Len(cached) ELSE n)
    /\ UNCHANGED << invoked, requests >>

\* return cached_results
ReturnCached(kw, n, uc, cached) ==
    /\ pc' = "returned"
    /\ keyword' = kw
    /\ max_results' = n
    /\ use_cache' = uc
    /\ tstate' = [p \in Providers |-> "none"]
    /\ tresult' = [p \in Providers |-> NoResult]
    /\ results' = << >>
    /\ errors' = {}
    /\ hit' = TRUE
    /\ ret' = cached
    /\ UNCHANGED << invoked, requests >>

\* ReadsCache ignoring use_cache
ReadsCacheAlways(uc) == TRUE

\* `if use_cache:` before the cache read
ReadsCache(uc) == uc

\* WritesCache for an empty list as well
WritesCacheEmpty(uc, rs) == uc

\* `if use_cache and results:` before the cache write
WritesCache(uc, rs) == uc /\ rs # << >>

\* an exception of _load_from_cache would leave search_all at the call
Propagate(kw, n, uc) ==
    /\ pc' = "raised"
    /\ keyword' = kw
    /\ max_results' = n
    /\ use_cache' = uc
    /\ UNCHANGED << tstate, tresult, results, errors, ret, hit, invoked, requests >>

\* search_all(keyword, max_results, use_cache) up to the end of the submits
SearchAllStart(kw, n, uc) ==
    /\ pc \in {"idle", "returned"}
    /\ calls < MaxCalls
    /\ calls' = calls + 1
    /\ LET cached == IF ReadsCache(uc) THEN LoadFromCache(files, now, kw, n) ELSE None IN
         IF cached = Exc
         THEN Propagate(kw, n, uc)
         ELSE IF cached # None
         THEN ReturnCached(kw, n, uc, cached.val)
         ELSE Submit(kw, n, uc)
    /\ files' = IF ReadsCache(uc) THEN AfterLoad(files, now, kw, n) ELSE files
    /\ UNCHANGED << appVars, creds, now, cacheOpVars >>

\* the worker thread of platform p runs its client to the end, the backend
\* answering resp
TaskFinish(p, resp) ==
    /\ pc = "fanout"
    /\ tstate[p] = "running"
    /\ tstate' = [tstate EXCEPT ![p] = "done"]
    /\ tresult' = [tresult EXCEPT ![p] = Client(p, creds[p], resp, max_results)]
    /\ requests' = [requests EXCEPT ![p] = IF IssuesRequest(creds[p]) THEN @ + 1 ELSE @]
    /\ UNCHANGED << appVars, creds, files, now, calls, pc, keyword, max_results, use_cache,
                    results, errors, ret, hit, invoked, cacheOpVars >>

\* the backend of platform p never answers: requests.get is called without a
\* timeout and blocks for ever
TaskHang(p) ==
    /\ pc = "fanout"
    /\ tstate[p] = "running"
    /\ IssuesRequest(creds[p])
    /\ tstate' = [tstate EXCEPT ![p] = "hung"]
    /\ requests' = [requests EXCEPT ![p] = @ + 1]
    /\ UNCHANGED << appVars, creds, files, now, calls, pc, keyword, max_results, use_cache,
                    tresult, results, errors, ret, hit, invoked, cacheOpVars >>

\* Collect without the try/except: the exception of the future escapes
CollectNoCatch(p) ==
    /\ pc = "fanout"
    /\ tstate[p] = "done"
    /\ tstate' = [tstate EXCEPT ![p] = "collected"]
    /\ IF tresult[p].raised
       THEN /\ pc' = "raised"
            /\ UNCHANGED results
       ELSE /\ results' = results \o tresult[p].items
            /\ UNCHANGED pc
    /\ UNCHANGED << appVars, creds, files, now, calls, keyword, max_results, use_cache,
                    tresult, errors, ret, hit, invoked, requests, cacheOpVars >>

\* Collect keeping only the first max_results items of the future's list
CollectTruncating(p) ==
    /\ pc = "fanout"
    /\ tstate[p] = "done"
    /\ tstate' = [tstate EXCEPT ![p] = "collected"]
    /\ IF tresult[p].raised
       THEN /\ errors' = errors \cup {p}
            /\ UNCHANGED results
       ELSE /\ results' = results \o SubSeq(tresult[p].items, 1,
                              IF Len(tresult[p].items) < max_results
                              THEN Len(tresult[p].items) ELSE max_results)
            /\ UNCHANGED errors
    /\ UNCHANGED << appVars, creds, files, now, calls, pc, keyword, max_results, use_cache,
                    tresult, ret, hit, invoked, requests, cacheOpVars >>

\* one iteration of `for future in as_completed(futures)`
Collect(p) ==
    /\ pc = "fanout"
    /\ tstate[p] = "done"
    /\ tstate' = [tstate EXCEPT ![p] = "collected"]
    /\ IF tresult[p].raised
       THEN /\ errors' = errors \cup {p}
            /\ UNCHANGED results
       ELSE /\ results' = results \o tresult[p].items
            /\ UNCHANGED errors
    /\ UNCHANGED << appVars, creds, files, now, calls, pc, keyword, max_results, use_cache,
                    tresult, ret, hit, invoked, requests, cacheOpVars >>

\* SearchAllFinish leaving the loop after the first collected future
SearchAllFinishEarly ==
    /\ pc = "fanout"
    /\ \E p \in Providers : tstate[p] = "collected"
    /\ files' = IF use_cache /\ results # << >>
                THEN SaveToCache(files, now, keyword, max_results, results)
                ELSE files
    /\ ret' = results
    /\ pc' = "returned"
    /\ UNCHANGED << appVars, creds, now, calls, keyword, max_results, use_cache, tstate,
                    tresult, results, errors, hit, invoked, requests, cacheOpVars >>

\* SearchAllFinish saving only when no provider raised
SearchAllFinishCompleteOnly ==
    /\ pc = "fanout"
    /\ \A p \in Providers : tstate[p] = "collected"
    /\ files' = IF WritesCache(use_cache, results) /\ errors = {}
                THEN SaveToCache(files, now, keyword, max_results, results)
                ELSE files
    /\ ret' = results
    /\ pc' = "returned"
    /\ UNCHANGED << appVars, creds, now, calls, keyword, max_results, use_cache, tstate,
                    tresult, results, errors, hit, invoked, requests, cacheOpVars >>

\* as_completed is exhausted and the executor has shut down: save and return
SearchAllFinish ==
    /\ pc = "fanout"
    /\ \A p \in Providers : tstate[p] = "collected"
    /\ files' = IF WritesCache(use_cache, results)
                THEN SaveToCache(files, now, keyword, max_results, results)
                ELSE files
    /\ ret' = results
    /\ pc' = "returned"
    /\ UNCHANGED << appVars, creds, now, calls, keyword, max_results, use_cache, tstate,
                    tresult, results, errors, hit, invoked, requests, cacheOpVars >>

\* the open or the json.dump of _save_to_cache raises
WriteFailures == { "open", "dump" }

\* the directory after a _save_to_cache whose open(cache_path, 'w') raised
\* (nothing changes) or whose json.dump raised (the file, truncated by the
\* open, holds a part of the object at most)
SaveFailed(fs, kw, n, failure) ==
    LET path == GetCachePath(kw, n) IN
    IF failure = "open" THEN fs
    ELSE [p \in DOMAIN fs \cup {path} |-> IF p = path THEN PartialFile ELSE fs[p]]

\* SearchAllFinishWriteError without the except clause of _save_to_cache
SearchAllFinishWriteRaises(failure) ==
    /\ pc = "fanout"
    /\ \A p \in Providers : tstate[p] = "collected"
    /\ use_cache /\ results # << >>
    /\ files' = SaveFailed(files, keyword, max_results, failure)
    /\ pc' = "raised"
    /\ UNCHANGED << appVars, creds, now, calls, keyword, max_results, use_cache, tstate,
                    tresult, results, errors, ret, hit, invoked, requests, cacheOpVars >>

\* the end of search_all when the cache write fails: _save_to_cache prints
\* the error and returns, search_all returns results
SearchAllFinishWriteError(failure) ==
    /\ pc = "fanout"
    /\ \A p \in Providers : tstate[p] = "collected"
    /\ use_cache /\ results # << >>
    /\ files' = SaveFailed(files, keyword, max_results, failure)
    /\ ret' = results
    /\ pc' = "returned"
    /\ UNCHANGED << appVars, creds, now, calls, keyword, max_results, use_cache, tstate,
                    tresult, results, errors, hit, invoked, requests, cacheOpVars >>

\* contents json.load or the try block cannot handle
CorruptContents == { EmptyFile, PartialFile, NoTimestamp, BadTimestamp, NoResults }

\* the file of query q is damaged outside the program (a crashed writer, a
\* disk fault, another program); search_all touches the directory only in
\* its first and last step, so damage between two calls covers every
\* interleaving
CorruptFile(q, content) ==
    /\ pc \in {"idle", "returned"}
    /\ files' = [p \in DOMAIN files \cup {GetCachePath(q[1], q[2])} |->
                    IF p = GetCachePath(q[1], q[2]) THEN content ELSE files[p]]
    /\ files' # files
    /\ UNCHANGED << appVars, creds, now, callVars, cacheOpVars >>

\* time passes
Tick ==
    /\ now + TickHours <= MaxTime
    /\ now' = now + TickHours
    /\ UNCHANGED << appVars, creds, files, calls, pc, keyword, max_results, use_cache, tstate,
                    tresult, results, errors, ret, hit, invoked, requests, cacheOpVars >>

-----------------------------------------------------------------------------
(* Direct calls of the cache methods *)

\* _save_to_cache(keyword, max_results, results)
DirectSave(kw, n, rs) ==
    /\ pc = "idle"
    /\ saves < MaxSaves
    /\ saves' = saves + 1
    /\ files' = SaveToCache(files, now, kw, n, rs)
    /\ saved' = saved \cup { << kw, n >> }
    /\ lastSave' = [op |-> "save", kw |-> kw, n |-> n, rs |-> rs, time |-> now,
                    key |-> GetCacheKey(kw, n)]
    /\ lastLoad' = [op |-> "none"]
    /\ UNCHANGED << appVars, creds, now, callVars, writer, lastClient >>

\* _load_from_cache(keyword, max_results)
DirectLoad(kw, n) ==
    /\ pc = "idle"
    /\ lastLoad' = [op |-> "load", kw |-> kw, n |-> n, time |-> now,
                    key |-> GetCacheKey(kw, n),
                    out |-> LoadFromCache(files, now, kw, n)]
    /\ files' = AfterLoad(files, now, kw, n)
    /\ UNCHANGED << appVars, creds, now, callVars, saves, saved, lastSave, writer, lastClient >>

\* WithFile rewriting the directory as a whole
WithFileOnly(fs, kw, n, content) ==
    [p \in {GetCachePath(kw, n)} |-> content]

\* the directory with content in the file of (kw, n)
WithFile(fs, kw, n, content) ==
    [p \in DOMAIN fs \cup {GetCachePath(kw, n)} |->
        IF p = GetCachePath(kw, n) THEN content ELSE fs[p]]

\* _save_to_cache up to open(cache_path, 'w'): cache_data is built, with the
\* timestamp, and the open creates the file or truncates it
SaveOpen(kw, n, rs) ==
    /\ pc = "idle"
    /\ writer = [op |-> "none"]
    /\ saves < MaxSaves
    /\ saves' = saves + 1
    /\ files' = WithFile(files, kw, n, EmptyFile)
    /\ writer' = [op |-> "save", kw |-> kw, n |-> n, rs |-> rs, time |-> now,
                   before |-> files]
    /\ lastLoad' = [op |-> "none"]
    /\ UNCHANGED << appVars, creds, now, callVars, saved, lastSave, lastClient >>

\* json.dump has filled the buffer of the file object, which writes it out
SaveFlush ==
    /\ writer.op = "save"
    /\ files[GetCachePath(writer.kw, writer.n)] = EmptyFile
    /\ files' = WithFile(files, writer.kw, writer.n, PartialFile)
    /\ UNCHANGED << appVars, creds, now, callVars, cacheOpVars >>

\* the end of the with block: the rest is written and the file closed
SaveClose ==
    /\ writer.op = "save"
    /\ files' = WithFile(files, writer.kw, writer.n,
                          CacheData(writer.time, writer.kw, writer.n, writer.rs))
    /\ saved' = saved \cup { << writer.kw, writer.n >> }
    /\ lastSave' = [op |-> "save", kw |-> writer.kw, n |-> writer.n, rs |-> writer.rs,
                     time |-> writer.time, key |-> GetCacheKey(writer.kw, writer.n)]
    /\ writer' = [op |-> "none"]
    /\ UNCHANGED << appVars, creds, now, callVars, saves, lastLoad, lastClient >>

-----------------------------------------------------------------------------
(* Overlapping search_all calls.  Each caller runs search_all with
   use_cache = True in its own thread or process on the shared cache
   directory; the fan-out, whose steps touch no shared state, is one step
   whose outcome is the list it aggregated. *)

\* the overlapping callers of search_all
Callers == { 1, 2 }

\* a caller that has not called yet
Idle == [pc |-> "idle"]

\* the length of the file, in JSON values: one for the header fields and one
\* for each result
JsonSize(content) ==
    IF "size" \in DOMAIN content THEN content.size
    ELSE IF content = EmptyFile THEN 0
    ELSE IF Parses(content) /\ "results" \in DOMAIN content THEN 1 + Len(content.results)
    ELSE 1

\* a complete object followed by the tail of a longer one: json.load raises
GarbledFile(size) == [text |-> "garbled", size |-> size]

\* WriteOver taken as replacing the file whatever its length
WriteOverWhole(old, new) == new

\* the file after the buffered text of new is written at offset 0 and the
\* descriptor closed: open(.., 'w') truncated the file when it was opened,
\* not now, so what another descriptor wrote beyond the new text stays
WriteOver(old, new) ==
    IF JsonSize(old) > JsonSize(new) THEN GarbledFile(JsonSize(old)) ELSE new

\* search_all up to the cache read: a hit returns, a miss goes on
CallStart(c, kw, n) ==
    /\ pc = "idle"
    /\ callers[c] = Idle
    /\ LET cached == LoadFromCache(files, now, kw, n) IN
         callers' = [callers EXCEPT ![c] =
            IF cached # None
            THEN [pc |-> "returned", kw |-> kw, n |-> n, results |-> << >>,
                  ret |-> cached.val, hit |-> TRUE, time |-> now, wrote |-> 0]
            ELSE [pc |-> "fanout", kw |-> kw, n |-> n, results |-> << >>,
                  ret |-> << >>, hit |-> FALSE, time |-> now, wrote |-> 0]]
    /\ files' = AfterLoad(files, now, kw, n)
    /\ UNCHANGED << creds, now, callVars, cacheOpVars, lastHandler, users, interactions, logFile >>

\* the executor block: the as_completed loop has built the list rs; an
\* empty list is returned at once, without a cache write
CallFanout(c, rs) ==
    /\ callers[c].pc = "fanout"
    /\ callers' = [callers EXCEPT ![c] =
          IF rs = << >>
          THEN [@ EXCEPT !.pc = "returned"]
          ELSE [@ EXCEPT !.pc = "saving", !.results = rs]]
    /\ UNCHANGED << creds, files, now, callVars, cacheOpVars, lastHandler, users, interactions, logFile >>

\* _save_to_cache up to open(cache_path, 'w'): cache_data is built, with the
\* timestamp, and the open truncates the file
CallSaveOpen(c) ==
    /\ callers[c].pc = "saving"
    /\ files' = WithFile(files, callers[c].kw, callers[c].n, EmptyFile)
    /\ callers' = [callers EXCEPT ![c] = [@ EXCEPT !.pc = "opened", !.time = now]]
    /\ UNCHANGED << creds, now, callVars, cacheOpVars, lastHandler, users, interactions, logFile >>

\* the end of the with block writes the text out; search_all returns results
CallSaveClose(c) ==
    /\ callers[c].pc = "opened"
    /\ files' = WithFile(files, callers[c].kw, callers[c].n,
                  WriteOver(files[GetCachePath(callers[c].kw, callers[c].n)],
                            CacheData(callers[c].time, callers[c].kw, callers[c].n,
                                      callers[c].results)))
    /\ callers' = [callers EXCEPT ![c] =
          [@ EXCEPT !.pc = "returned", !.ret = callers[c].results,
                    !.wrote = 1 + Cardinality({d \in Callers : callers[d].pc # "idle"
                                                               /\ callers[d].wrote > 0})]]
    /\ UNCHANGED << creds, now, callVars, cacheOpVars, lastHandler, users, interactions, logFile >>

-----------------------------------------------------------------------------
(* Direct calls of the provider clients *)

\* payloads of up to two raw items
ClientPayloads ==
    { << >> } \cup { << a >> : a \in {Item1, Item2, BadItem} }
              \cup { << a, b >> : a, b \in {Item1, Item2, BadItem} }

\* what a backend can answer
ClientResponses ==
    { TransportError, NotJson, BadShape, ErrorBody } \cup { Payload(x) : x \in ClientPayloads }

\* the client of platform p called with max_results = n, its key set or not,
\* the backend answering resp
ClientCall(p, cred, resp, n) ==
    /\ pc = "idle"
    /\ lastClient' = [op |-> "client", p |-> p, cred |-> cred, resp |-> resp, n |-> n,
                       out |-> Client(p, cred, resp, n)]
    /\ UNCHANGED << appVars, creds, files, now, callVars, saves, saved, lastSave, lastLoad, writer >>

-----------------------------------------------------------------------------
(* Handlers of main.py *)

\* seq[-n:], what PySlice would be if it kept the end of the list
PySliceFromEnd(seq, n) ==
    SubSeq(seq, IF Len(seq) < n THEN 1 ELSE Len(seq) - n + 1, Len(seq))

\* seq[:n] for n >= 0
PySlice(seq, n) == SubSeq(seq, 1, IF Len(seq) < n THEN Len(seq) ELSE n)

\* the body of search_products, search_all having returned rs
SearchProductsResponse(rs, n) ==
    [ success       |-> TRUE,
      total_results |-> Len(PySlice(rs, n)),
      products      |-> PySlice(rs, n) ]

\* a list of three results, as search_all returns for three providers
ThreeResults ==
    << [title |-> "Lamp", price |-> 1999, currency |-> "USD", platform |-> "eBay"],
       [title |-> "Desk", price |-> 500, currency |-> "USD", platform |-> "Amazon"],
       [title |-> "Lamp", price |-> 1999, currency |-> "USD", platform |-> "Google Shopping"] >>

\* max_results of a ProductSearchRequest (ge=1)
HandlerLimits == { 1, 2, 3, 4 }

\* POST /search-products with max_results = n, search_all returning rs
SearchProducts(rs, n) ==
    /\ pc = "idle"
    /\ lastHandler' = [op |-> "search_products", results |-> rs, n |-> n,
                        response |-> SearchProductsResponse(rs, n)]
    /\ UNCHANGED << creds, files, now, callVars, cacheOpVars, callers, users, interactions, logFile >>

\* the limits of the products list of the suggestion path
MaxVibes == 3

PerVibe == 2

MaxProducts == 5

NameChars == 20

ReasonChars == 40

\* the entry appended for one sample product of a vibe
SuggestedProduct(product_name, vibe) ==
    [ name     |-> PySlice(product_name, NameChars),
      reason   |-> PySlice(IF "vibe" \in DOMAIN vibe THEN vibe.vibe ELSE << >>, ReasonChars),
      category |-> "Suggested" ]

\* the entry the list is padded with
Placeholder ==
    [name |-> "Explore More", reason |-> "Discover new possibilities", category |-> "Lifestyle"]

\* vibe.get('sample_products', [])
SampleProducts(vibe) ==
    IF "sample_products" \in DOMAIN vibe THEN vibe.sample_products ELSE << >>

\* the inner for loop: append, then break at MaxProducts
RECURSIVE InnerLoop(_, _, _)
InnerLoop(products, names, vibe) ==
    IF names = << >> THEN products
    ELSE LET appended == Append(products, SuggestedProduct(Head(names), vibe)) IN
         IF Len(appended) >= MaxProducts THEN appended
         ELSE InnerLoop(appended, Tail(names), vibe)

\* the outer for loop over the vibes, with its own break
RECURSIVE OuterLoop(_, _)
OuterLoop(products, vibes) ==
    IF vibes = << >> THEN products
    ELSE LET after == InnerLoop(products, PySlice(SampleProducts(Head(vibes)), PerVibe),
                                Head(vibes)) IN
         IF Len(after) >= MaxProducts THEN after
         ELSE OuterLoop(after, Tail(vibes))

\* the while loop that pads the list
RECURSIVE PadLoop(_)
PadLoop(products) ==
    IF Len(products) < MaxProducts THEN PadLoop(Append(products, Placeholder))
    ELSE products

\* BuildProducts without the padding loop
BuildProductsNoPad(vibes) == OuterLoop(<< >>, PySlice(vibes, MaxVibes))

\* the products list built from result_data['suggested_vibes']
BuildProducts(vibes) == PadLoop(OuterLoop(<< >>, PySlice(vibes, MaxVibes)))

\* product names of 3 and of 21 characters
ShortName == << "M", "u", "g" >>

LongName == [i \in 1..21 |-> "x"]

\* a vibe of the AI response: without the sample_products key, or with up to
\* three sample products
VibeInputs ==
    { [vibe |-> << "c", "o", "z", "y" >>] }
    \cup { [vibe |-> << "c", "o", "z", "y" >>, sample_products |-> sp] :
             sp \in { << >>, << ShortName >>, << ShortName, LongName >>,
                       << ShortName, LongName, ShortName >> } }

\* suggested_vibes lists of up to four vibes
VibeLists ==
    { << >> } \cup { << a >> : a \in VibeInputs }
              \cup { << a, b >> : a, b \in VibeInputs }
              \cup { << a, b, c >> : a, b, c \in VibeInputs }
              \cup { << a, b, c, d >> : a, b, c, d \in VibeInputs }

\* the conversion of suggested_vibes in _generate_suggestions_from_history
SuggestProducts(vibes) ==
    /\ pc = "idle"
    /\ lastHandler' = [op |-> "suggest", vibes |-> vibes, products |-> BuildProducts(vibes)]
    /\ UNCHANGED << creds, files, now, callVars, cacheOpVars, callers, users, interactions, logFile >>

-----------------------------------------------------------------------------
(* ai_logger.py and the /logs handlers *)

\* number of lines ai_responses.jsonl holds in one behaviour
MaxLogLines == 2

\* decision_type as main.py passes it
DecisionTypes == { "mood_detection", "recommendation", "suggestion" }

\* log_entry of log_decision; ai_response and context are carried opaquely
LogEntry(uid, dtype) ==
    [timestamp |-> now, user_id |-> uid, decision_type |-> dtype]

\* json.dumps(log_entry) + '\n': one line of text holding the object
JsonLine(entry) == [text |-> "json", object |-> entry]

\* json.loads(line)
JsonLoads(line) == line.object

\* f.readlines() of the file, nothing while it does not exist
LogLines(file) == IF file = None THEN << >> ELSE file.val

\* the file after log_decision(uid, .., dtype, ..): open(.., 'a') creates
\* the file and the line is appended, or the write raises (ok = FALSE) and
\* the except clause prints the failure
LogDecisionFile(file, uid, dtype, ok) ==
    IF ok THEN Some(Append(LogLines(file), JsonLine(LogEntry(uid, dtype)))) ELSE file

\* log_decision as the handlers call it: the write succeeds while the
\* file has room for the line and raises into the except clause otherwise
HandlerLog(file, uid, dtype) ==
    LogDecisionFile(file, uid, dtype, Len(LogLines(file)) < MaxLogLines)

\* lines[-n:] of Python for any integer n: the start index -n counts from
\* the end when it is negative and from the front when it is not
PyLastSlice(seq, n) ==
    LET start == IF -n < 0
                 THEN (IF Len(seq) - n < 0 THEN 0 ELSE Len(seq) - n)
                 ELSE (IF -n > Len(seq) THEN Len(seq) ELSE -n)
    IN SubSeq(seq, start + 1, Len(seq))

\* [json.loads(line) for line in lines]
LoadLines(lines) == [i \in 1..Len(lines) |-> JsonLoads(lines[i])]

\* get_recent_logs(limit): [] when the file does not exist or reading it
\* raises (readOk = FALSE), else the parsed lines[-limit:]
RecentLogs(file, limit, readOk) ==
    IF file = None THEN << >>
    ELSE IF ~readOk THEN << >>
    ELSE LoadLines(PyLastSlice(LogLines(file), limit))

\* get_logs_for_user(user_id)
LogsForUser(file, uid, readOk) ==
    IF file = None THEN << >>
    ELSE IF ~readOk THEN << >>
    ELSE SelectSeq(LoadLines(LogLines(file)), LAMBDA entry : entry.user_id = uid)

\* limit of GET /logs/recent: any int
LogLimits == -1..(MaxLogLines + 1)

\* a direct log_decision(uid, .., dtype, ..) call; it never raises
LogDecision(uid, dtype, ok) ==
    /\ pc = "idle"
    /\ ok => Len(LogLines(logFile)) < MaxLogLines
    /\ logFile' = LogDecisionFile(logFile, uid, dtype, ok)
    /\ lastHandler' = [op |-> "log_decision", user_id |-> uid, decision_type |-> dtype,
                        wrote |-> ok]
    /\ UNCHANGED << creds, files, now, callVars, cacheOpVars, callers, users, interactions >>

\* GET /logs/recent?limit=..
GetRecentLogs(limit, readOk) ==
    LET logs == RecentLogs(logFile, limit, readOk) IN
    /\ pc = "idle"
    /\ lastHandler' = [op |-> "get_recent_logs", limit |-> limit,
                        failed |-> logFile # None /\ ~readOk,
                        total |-> Len(logs), logs |-> logs]
    /\ UNCHANGED << creds, files, now, callVars, cacheOpVars, callers, users, interactions,
                    logFile >>

\* GET /logs/user/{user_id}
GetUserLogs(uid, readOk) ==
    LET logs == LogsForUser(logFile, uid, readOk) IN
    /\ pc = "idle"
    /\ lastHandler' = [op |-> "get_user_logs", user_id |-> uid,
                        total |-> Len(logs), logs |-> logs]
    /\ UNCHANGED << creds, files, now, callVars, cacheOpVars, callers, users, interactions,
                    logFile >>

\* clear_logs(): os.remove of the file when it exists; a failure
\* (ok = FALSE) is printed
ClearLogs(ok) ==
    /\ pc = "idle"
    /\ logFile' = IF logFile # None /\ ok THEN None ELSE logFile
    /\ lastHandler' = [op |-> "clear_logs", removed |-> logFile # None /\ ok]
    /\ UNCHANGED << creds, files, now, callVars, cacheOpVars, callers, users, interactions >>

-----------------------------------------------------------------------------
(* user_memory.py and the /recommend handler *)

UserIds == { "u1", "u2" }

\* SELECT * FROM users WHERE user_id = ?
UserRows(us, uid) == SelectSeq(us, LAMBDA row : row.user_id = uid)

\* EnsureUser inserting without the SELECT
EnsureUserAlwaysInsert(us, uid) ==
    Append(us, [user_id |-> uid, preferences_summary |-> "null"])

\* the users table after get_or_create_user(uid), which commits on its own
\* connection: the row is inserted when the SELECT finds none
EnsureUser(us, uid) ==
    IF UserRows(us, uid) # << >> THEN us
    ELSE Append(us, [user_id |-> uid, preferences_summary |-> "null"])

RECURSIVE Reverse(_)
Reverse(seq) == IF seq = << >> THEN << >> ELSE Append(Reverse(Tail(seq)), Head(seq))

\* get_user_history(user_id, limit): the latest rows of the user first
GetUserHistory(rows, uid, limit) ==
    PySlice(Reverse(SelectSeq(rows, LAMBDA row : row.user_id = uid)), limit)

\* limit=5 in get_recommendations
HistoryLimit == 5

\* get_or_create_user(user_id)
GetOrCreateUser(uid) ==
    /\ pc = "idle"
    /\ users' = EnsureUser(users, uid)
    /\ lastHandler' = [op |-> "get_or_create_user", user_id |-> uid,
                        existed |-> UserRows(users, uid) # << >>,
                        out |-> UserRows(EnsureUser(users, uid), uid)[1]]
    /\ UNCHANGED << creds, files, now, callVars, cacheOpVars, callers, interactions, logFile >>

\* save_interaction(user_id, vibe_input, ...): the user row is ensured and
\* committed by get_or_create_user; the INSERT of the interaction raises
\* (ok = FALSE: json.dumps of the recommendations fails, a NOT NULL column
\* is None) and is rolled back, or is committed
SaveInteraction(uid, vibe, ok) ==
    /\ pc = "idle"
    /\ ok => Len(interactions) < MaxInteractions
    /\ users' = EnsureUser(users, uid)
    /\ interactions' = IF ok THEN Append(interactions, [user_id |-> uid, vibe_input |-> vibe])
                       ELSE interactions
    /\ lastHandler' = [op |-> "save_interaction", user_id |-> uid, raised |-> ~ok]
    /\ UNCHANGED << creds, files, now, callVars, cacheOpVars, callers, logFile >>

\* update_preferences_summary(user_id, summary): UPDATE .. WHERE user_id = ?
UpdatePreferencesSummary(uid, summary) ==
    /\ pc = "idle"
    /\ users' = [i \in 1..Len(users) |->
                    IF users[i].user_id = uid
                    THEN [users[i] EXCEPT !.preferences_summary = summary]
                    ELSE users[i]]
    /\ lastHandler' = [op |-> "update_preferences_summary", user_id |-> uid]
    /\ UNCHANGED << creds, files, now, callVars, cacheOpVars, callers, interactions, logFile >>

\* the is_clear member of the mood detection answer: JSON true, false or
\* null, the string "false", or no such member
IsClearValues == { "true", "false", "null", "string", "absent" }

\* mood_data.get("is_clear", True) as `not is_clear` sees it: None is falsy,
\* a non-empty string truthy
IsClear(v) == v \in { "true", "string", "absent" }

\* Route sending every unsure user to the suggestions
RouteIgnoringHistory(v, history) ==
    IF ~IsClear(v) THEN "suggestions" ELSE "recommendations"

\* STEP 2 of get_recommendations
Route(v, history) ==
    IF ~IsClear(v) /\ history # << >> THEN "suggestions" ELSE "recommendations"

\* the vibe _generate_normal_recommendations saves: rewritten for an unsure
\* user without history
SavedVibe(v, history) ==
    IF ~IsClear(v) /\ history = << >> THEN "rewritten" ELSE "original"

\* POST /recommend by user uid: the mood detection answers v or fails, the
\* second AI call answers or fails, save_interaction commits or raises.
\* The mood detection answer is logged before the routing, the second
\* answer before save_interaction.
Recommend(uid, v, moodOk, aiOk, saveOk) ==
    LET history == GetUserHistory(interactions, uid, HistoryLimit)
        mode == IF moodOk THEN Route(v, history) ELSE "none"
        saves_row == mode = "recommendations" /\ aiOk /\ saveOk
        moodLogged == IF moodOk THEN HandlerLog(logFile, uid, "mood_detection") ELSE logFile
        answerLogged ==
            IF moodOk /\ aiOk
            THEN HandlerLog(moodLogged, uid,
                            IF mode = "suggestions" THEN "suggestion" ELSE "recommendation")
            ELSE moodLogged
    IN
    /\ pc = "idle"
    /\ saves_row => Len(interactions) < MaxInteractions
    /\ users' = IF mode = "recommendations" /\ aiOk THEN EnsureUser(users, uid) ELSE users
    /\ interactions' =
          IF saves_row
          THEN Append(interactions, [user_id |-> uid, vibe_input |-> SavedVibe(v, history)])
          ELSE interactions
    /\ lastHandler' = [op |-> "recommend", user_id |-> uid, is_clear |-> v, mode |-> mode,
                        status |-> IF moodOk /\ aiOk /\ (mode = "suggestions" \/ saveOk)
                                   THEN 200 ELSE 500]
    /\ logFile' = answerLogged
    /\ UNCHANGED << creds, files, now, callVars, cacheOpVars, callers >>

-----------------------------------------------------------------------------
(* Specifications *)

NoOp == [op |-> "none"]

\* the state after __init__ with the API keys as in configs
InitWith(configs) ==
    /\ creds \in configs
    /\ files = << >>
    /\ now = 0
    /\ calls = 0
    /\ pc = "idle"
    /\ keyword = << >>
    /\ max_results = 0
    /\ use_cache = FALSE
    /\ tstate = [p \in Providers |-> "none"]
    /\ tresult = [p \in Providers |-> NoResult]
    /\ results = << >>
    /\ errors = {}
    /\ ret = << >>
    /\ hit = FALSE
    /\ invoked = 0
    /\ requests = [p \in Providers |-> 0]
    /\ saves = 0
    /\ saved = {}
    /\ lastSave = NoOp
    /\ lastLoad = NoOp
    /\ writer = NoOp
    /\ lastClient = NoOp
    /\ callers = [c \in Callers |-> Idle]
    /\ lastHandler = NoOp
    /\ users = << >>
    /\ interactions = << >>
    /\ logFile = None

\* EBAY_APP_ID and RAPIDAPI_KEY are set, SERPAPI_KEY is not
Init == InitWith({[p \in Providers |-> p # "Google Shopping"]})

\* repeated search_all calls, one at a time, every backend asked answering
Next ==
    \/ \E q \in Queries, uc \in BOOLEAN : SearchAllStart(q[1], q[2], uc)
    \/ \E p \in Providers, resp \in Responses : TaskFinish(p, resp)
    \/ \E p \in Providers : Collect(p)
    \/ SearchAllFinish
    \/ Tick

Spec == Init /\ [][Next]_vars

\* any subset of the API keys is set
FanoutInit == InitWith([Providers -> BOOLEAN])

\* one search_all call; a backend answers anything, or never
FanoutNext ==
    \/ /\ calls = 0
       /\ \E kw \in Keywords, n \in Limits, uc \in BOOLEAN : SearchAllStart(kw, n, uc)
    \/ \E p \in Providers, resp \in FanoutResponses : TaskFinish(p, resp)
    \/ \E p \in Providers : TaskHang(p)
    \/ \E p \in Providers : Collect(p)
    \/ SearchAllFinish

FanoutSpec == FanoutInit /\ [][FanoutNext]_vars

\* the threads of the pool and the main thread are scheduled: a future that
\* is done is collected, the call returns once the loop has ended, and a
\* worker thread runs on (to a backend that answers, or to one that does not)
FanoutFairSpec ==
    /\ FanoutSpec
    /\ WF_vars(\E p \in Providers : Collect(p))
    /\ WF_vars(SearchAllFinish)
    /\ \A p \in Providers :
          WF_vars((\E resp \in FanoutResponses : TaskFinish(p, resp)) \/ TaskHang(p))

\* the cache methods called directly, with any keyword, limit and list
CacheNext ==
    \/ \E kw \in CacheKeywords, n \in Limits, rs \in ResultLists : DirectSave(kw, n, rs)
    \/ \E kw \in CacheKeywords, n \in Limits : DirectLoad(kw, n)
    \/ Tick

CacheSpec == Init /\ [][CacheNext]_vars

\* a reader beside a writer of the cache directory
ConcNext ==
    \/ \E q \in Queries, rs \in ResultLists : SaveOpen(q[1], q[2], rs)
    \/ SaveFlush
    \/ SaveClose
    \/ \E q \in Queries : DirectLoad(q[1], q[2])
    \/ Tick

ConcSpec == Init /\ [][ConcNext]_vars

\* two callers of search_all whose calls overlap
OverlapNext ==
    \/ \E c \in Callers, q \in Queries : CallStart(c, q[1], q[2])
    \/ \E c \in Callers, rs \in ResultLists : CallFanout(c, rs)
    \/ \E c \in Callers : CallSaveOpen(c)
    \/ \E c \in Callers : CallSaveClose(c)

OverlapSpec == Init /\ [][OverlapNext]_vars

\* calls of the memory manager, one after another
MemoryNext ==
    \/ \E uid \in UserIds : GetOrCreateUser(uid)
    \/ \E uid \in UserIds, ok \in BOOLEAN : SaveInteraction(uid, "original", ok)
    \/ \E uid \in UserIds : UpdatePreferencesSummary(uid, "cozy")

MemorySpec == Init /\ [][MemoryNext]_vars

\* /recommend requests, one after another, of users whose earlier
\* interactions were saved by the requests or by save_interaction
RecommendNext ==
    \/ \E uid \in UserIds, ok \in BOOLEAN : SaveInteraction(uid, "original", ok)
    \/ \E uid \in UserIds, v \in IsClearValues, moodOk, aiOk, saveOk \in BOOLEAN :
          Recommend(uid, v, moodOk, aiOk, saveOk)

RecommendSpec == Init /\ [][RecommendNext]_vars

\* the list conversions of the handlers as pure functions of their input
HandlerNext ==
    \/ \E rs \in ResultLists \cup {ThreeResults}, n \in HandlerLimits : SearchProducts(rs, n)
    \/ \E vibes \in VibeLists : SuggestProducts(vibes)

HandlerSpec == Init /\ [][HandlerNext]_vars

\* calls of the logger and of the /logs handlers, and /recommend requests
\* that log their decisions, one after another
LogNext ==
    \/ \E uid \in UserIds, dtype \in DecisionTypes, ok \in BOOLEAN : LogDecision(uid, dtype, ok)
    \/ \E limit \in LogLimits, readOk \in BOOLEAN : GetRecentLogs(limit, readOk)
    \/ \E uid \in UserIds, readOk \in BOOLEAN : GetUserLogs(uid, readOk)
    \/ \E ok \in BOOLEAN : ClearLogs(ok)

LogSpec == Init /\ [][LogNext]_vars

\* the provider clients as pure functions of key, backend answer and limit
ClientNext ==
    \E p \in Providers, cred \in BOOLEAN, resp \in ClientResponses, n \in Limits :
        ClientCall(p, cred, resp, n)

ClientSpec == Init /\ [][ClientNext]_vars

\* repeated search_all calls on a cache directory whose files can be damaged
\* and whose writes can fail
FaultNext ==
    \/ \E q \in Queries, uc \in BOOLEAN : SearchAllStart(q[1], q[2], uc)
    \/ \E p \in Providers, resp \in Responses : TaskFinish(p, resp)
    \/ \E p \in Providers : Collect(p)
    \/ SearchAllFinish
    \/ \E failure \in WriteFailures : SearchAllFinishWriteError(failure)
    \/ \E q \in Queries, content \in CorruptContents : CorruptFile(q, content)
    \/ Tick

FaultInit == InitWith({[p \in Providers |-> p = "eBay"]})

FaultSpec == FaultInit /\ [][FaultNext]_vars

-----------------------------------------------------------------------------
(* Properties of the fan-out (FanoutSpec) *)

RECURSIVE Flatten(_)
Flatten(ss) == IF Len(ss) = 0 THEN << >> ELSE Head(ss) \o Flatten(Tail(ss))

\* what the future of platform p contributes: nothing when it raised
Contribution(p) == IF tresult[p].raised THEN << >> ELSE tresult[p].items

\* the contributions concatenated in the given order of platforms
ConcatIn(order) == Flatten([i \in 1..Len(order) |-> Contribution(order[i])])

\* the orders in which three futures can complete
Orders == { o \in [1..Len(Registration) -> Providers] :
              \A i, j \in 1..Len(Registration) : o[i] = o[j] => i = j }

Raising == { p \in Providers : tresult[p].raised }

MissReturned == pc = "returned" /\ ~hit

\* C1: whatever subset of the provider tasks raises, no exception escapes
\* search_all, and on a cache miss it returns exactly the results of the
\* providers that did not raise (the empty list when all three raise).
C1_PartialFailureIsolation ==
    /\ pc # "raised"
    /\ MissReturned =>
          /\ \E o \in Orders : ret = ConcatIn(o)
          /\ errors = Raising
          /\ Raising = Providers => ret = << >>

\* a miss returned with Amazon alone raising and both others contributing
C1_Witness ==
    /\ MissReturned
    /\ Raising = {"Amazon"}
    /\ Len(tresult["eBay"].items) = 2
    /\ Len(tresult["Google Shopping"].items) = 2
    /\ Len(ret) = 4

\* C2: on a cache miss search_all returns the providers' results
\* concatenated in registration order (eBay, Amazon, Google Shopping),
\* whatever the order in which the tasks complete.
C2_RegistrationOrder == MissReturned => ret = ConcatIn(Registration)

AllFinished == \A p \in Providers : tstate[p] = "collected"

\* C3: on a cache miss search_all neither returns nor writes the cache while
\* a provider task it dispatched is still running.
C3_NoEarlyReturn ==
    /\ [](MissReturned => AllFinished)
    /\ [][files' # files => AllFinished]_vars

\* a miss returned and cached after a fan-out in which a task raised
C3_Witness ==
    /\ MissReturned
    /\ AllFinished
    /\ Raising # {}
    /\ DOMAIN files # {}

\* C4: every search_all call eventually returns, even when a provider
\* backend never responds.
C4_EventuallyReturns == (pc = "fanout") ~> (pc = "returned")

-----------------------------------------------------------------------------
(* Properties of repeated calls (Spec) *)

\* an entry for (kw, n) is stored and is at most CacheHours old
HasFreshEntry(kw, n) ==
    /\ GetCachePath(kw, n) \in DOMAIN files
    /\ now - FromIsoFormat(files[GetCachePath(kw, n)].timestamp) <= CacheHours

\* C5: a search_all call with use_cache set that finds an unexpired entry
\* for its (keyword, max_results) returns the stored list verbatim, without
\* truncation, and invokes no provider client.
C5_CacheHitVerbatim ==
    [][ (calls' = calls + 1 /\ use_cache' /\ HasFreshEntry(keyword', max_results'))
        => /\ pc' = "returned"
           /\ ret' = JsonLoadResults(files[GetCachePath(keyword', max_results')].results)
           /\ invoked' = invoked
           /\ requests' = requests ]_vars

\* a second call answered from the cache with more items than max_results
C5_Witness ==
    /\ pc = "returned"
    /\ hit
    /\ calls = 2
    /\ Len(ret) > max_results
    /\ invoked = Len(Registration)
    /\ requests["eBay"] = 1

-----------------------------------------------------------------------------
(* Properties of the cache methods (CacheSpec) *)

\* a _load_from_cache call followed the last _save_to_cache call
LoadedAfterSave == lastSave.op = "save" /\ lastLoad.op = "load"

SameQuery == lastLoad.kw = lastSave.kw /\ lastLoad.n = lastSave.n

Age == lastLoad.time - lastSave.time

\* C7: an entry written at T0 is returned by a read at t when
\* t - T0 <= ttl and is absent when t - T0 > ttl, whatever its content.
C7_TtlExpiry ==
    (LoadedAfterSave /\ SameQuery) =>
        /\ Age <= CacheHours => lastLoad.out # None
        /\ Age > CacheHours => lastLoad.out = None

\* an entry read exactly ttl after it was written, and found
C7_Witness ==
    /\ LoadedAfterSave
    /\ SameQuery
    /\ Age = CacheHours
    /\ lastLoad.out # None

\* C8: _save_to_cache followed by _load_from_cache with the same keyword
\* and limit before the TTL elapses returns a list equal to the one written.
C8_RoundTrip ==
    (LoadedAfterSave /\ SameQuery /\ Age <= CacheHours)
        => lastLoad.out = Some(lastSave.rs)

\* a two-item list written and read back
C8_Witness ==
    /\ LoadedAfterSave
    /\ SameQuery
    /\ Len(lastSave.rs) = 2
    /\ lastLoad.out = Some(lastSave.rs)

\* str.strip() of the leading and trailing spaces
RECURSIVE Strip(_)
Strip(s) == IF Len(s) = 0 THEN s
            ELSE IF Head(s) = " " THEN Strip(Tail(s))
            ELSE IF s[Len(s)] = " " THEN Strip(SubSeq(s, 1, Len(s) - 1))
            ELSE s

\* the keyword lowercased and trimmed
Normalize(kw) == Lower(Strip(kw))

\* C9: two keywords that differ only in letter case or in leading/trailing
\* whitespace yield, with the same limit, the same fingerprint and hit the
\* same cache entry.
C9_NormalizedSameKey ==
    (LoadedAfterSave /\ lastLoad.n = lastSave.n
        /\ Normalize(lastLoad.kw) = Normalize(lastSave.kw))
        => /\ lastLoad.key = lastSave.key
           /\ Age <= CacheHours => lastLoad.out = Some(lastSave.rs)

\* C10: two queries with different lowercased keywords or different limits
\* never have the same key, and a read for one never returns an entry
\* written for the other.
C10_DistinctQueriesDistinctKeys ==
    /\ (LoadedAfterSave
          /\ (lastLoad.n # lastSave.n \/ Lower(lastLoad.kw) # Lower(lastSave.kw)))
        => lastLoad.key # lastSave.key
    /\ (lastLoad.op = "load" /\ lastLoad.out # None)
        => \E q \in saved : q[2] = lastLoad.n /\ Lower(q[1]) = Lower(lastLoad.kw)

\* an unexpired entry written for limit 1 and not returned for limit 2
C10_Witness ==
    /\ LoadedAfterSave
    /\ lastLoad.kw = lastSave.kw
    /\ lastSave.n = 1
    /\ lastLoad.n = 2
    /\ Len(lastSave.rs) > 0
    /\ Age <= CacheHours
    /\ lastLoad.out = None

\* the file of the query (kw, n) holds something the try block of
\* _load_from_cache cannot handle
CorruptEntry(kw, n) ==
    /\ GetCachePath(kw, n) \in DOMAIN files
    /\ files[GetCachePath(kw, n)] \in CorruptContents

\* the step is the first step of a search_all call
StartStep == calls' = calls + 1

\* C11: a cache read that finds unparsable JSON, a missing timestamp or
\* results field or an invalid timestamp returns None without raising, and
\* search_all goes on to the provider fan-out as on any other miss.
C11_CorruptReadIsMiss ==
    [][(StartStep /\ use_cache' /\ CorruptEntry(keyword', max_results')) =>
          /\ LoadFromCache(files, now, keyword', max_results') = None
          /\ pc' = "fanout"
          /\ ~hit'
          /\ \A p \in Providers : tstate'[p] = "running"]_vars

\* a caching call in its fan-out over a fresh file without a results field
C11_Witness ==
    /\ pc = "fanout"
    /\ use_cache
    /\ GetCachePath(keyword, max_results) \in DOMAIN files
    /\ files[GetCachePath(keyword, max_results)] = NoResults
    /\ now = 0

\* the step ends a search_all call whose cache write did not succeed
FailedWriteStep ==
    /\ pc = "fanout" /\ pc' # "fanout"
    /\ use_cache /\ results # << >>
    /\ files' # SaveToCache(files, now, keyword, max_results, results)

\* C12: when the cache write fails during search_all, search_all raises
\* nothing and returns the list it aggregated, as it would have had the
\* write succeeded.
C12_WriteFailureSwallowed ==
    [][FailedWriteStep => (pc' = "returned" /\ ret' = results /\ ~hit')]_vars

\* a caching miss that returned results although no file could be opened
C12_Witness ==
    /\ MissReturned
    /\ use_cache
    /\ ret # << >>
    /\ GetCachePath(keyword, max_results) \notin DOMAIN files

\* a provider client was called with its key set
KeyedCall == lastClient.op = "client" /\ lastClient.cred

\* C13: a provider client never raises when the backend is unavailable or
\* answers a malformed payload: a transport error, a non-success status or
\* an unexpected payload shape is caught inside the client, which returns an
\* empty sequence.
C13_ClientNeverRaises ==
    (lastClient.op = "client" /\ lastClient.resp.kind # "payload") =>
        lastClient.out = Return(<< >>)

\* C14: a provider client whose credential is absent makes no network call
\* and returns an empty sequence: the number of backend requests of a
\* provider without key stays zero and nothing of it is in what search_all
\* returns.
C14_NoCredentialNoRequest ==
    \A p \in Providers :
        ~creds[p] =>
            /\ requests[p] = 0
            /\ tstate[p] # "hung"
            /\ tstate[p] \in {"done", "collected"} => tresult[p] = Return(<< >>)
            /\ MissReturned => \A i \in 1..Len(ret) : ret[i].platform # p

\* a miss returned by Amazon alone, eBay and Google Shopping having no key
C14_Witness ==
    /\ MissReturned
    /\ ~creds["eBay"] /\ ~creds["Google Shopping"] /\ creds["Amazon"]
    /\ requests["Amazon"] = 1
    /\ Len(ret) = 2
    /\ tstate["eBay"] = "collected"

\* C15: every provider client returns at most max_results items, whatever
\* number of raw items the backend returns, and exactly max_results when the
\* backend returns more.
C15_AtMostMaxResults ==
    KeyedCall =>
        /\ Len(lastClient.out.items) <= lastClient.n
        /\ (~lastClient.out.raised /\ Len(lastClient.resp.items) > lastClient.n) =>
              Len(lastClient.out.items) = lastClient.n

\* the raw item's price is one float() accepts
NumericPrice(raw) == PyFloat(raw.price).ok

\* C16: in every provider client a raw item whose price is non-numeric is
\* normalized to price 0.0 with currency "USD" and does not raise.
C16_NonNumericPriceIsZero ==
    (KeyedCall /\ lastClient.resp.kind = "payload") =>
        /\ ~lastClient.out.raised
        /\ \A i \in 1..Len(lastClient.out.items) :
              ~NumericPrice(lastClient.resp.items[i]) =>
                  /\ lastClient.out.items[i].price = 0
                  /\ lastClient.out.items[i].currency = "USD"

\* the normalized results of the well-formed raw items, in order
WellFormedResults(p, payload) ==
    LenientItems(p, SelectSeq(payload, NumericPrice)).items

\* C17: when one raw item of a response is malformed the client does not
\* abort the batch: it still returns the normalized result of every
\* well-formed item of the response, in order, with the malformed item
\* left out (or, as C16 has it, kept with its price coerced).
C17_MalformedItemSkipped ==
    (KeyedCall /\ lastClient.resp.kind = "payload") =>
        /\ ~lastClient.out.raised
        /\ lastClient.out.items \in
              { WellFormedResults(lastClient.p, lastClient.resp.items),
                LenientItems(lastClient.p, lastClient.resp.items).items }

\* the future of platform p has run its client to the end
Finished(p) == tstate[p] \in {"done", "collected"}

\* C18: every result in every list search_all returns, from a fan-out or
\* from a cache entry it wrote itself, carries a non-empty platform tag that
\* names the provider client that produced the result.
C18_PlatformTagged ==
    /\ \A p \in Providers : Finished(p) =>
          \A i \in 1..Len(tresult[p].items) : tresult[p].items[i].platform = p
    /\ pc = "returned" =>
          \A i \in 1..Len(ret) :
              /\ ret[i].platform \in Providers
              /\ creds[ret[i].platform]
              /\ ~hit => /\ Finished(ret[i].platform)
                          /\ \E j \in 1..Len(tresult[ret[i].platform].items) :
                                ret[i] = tresult[ret[i].platform].items[j]
    /\ \A path \in DOMAIN files :
          \A i \in 1..Len(files[path].results) :
              /\ files[path].results[i].platform \in Providers
              /\ creds[files[path].results[i].platform]

\* a cache hit returning one result of each of two providers
C18_Witness ==
    /\ pc = "returned" /\ hit
    /\ Len(ret) = 2
    /\ ret[1].platform # ret[2].platform

\* the step is a _load_from_cache of the fingerprint whose file a
\* _save_to_cache has opened and not yet closed
ConcurrentLoadStep ==
    /\ writer.op = "save"
    /\ lastLoad' # lastLoad
    /\ lastLoad'.op = "load"
    /\ lastLoad'.key = GetCacheKey(writer.kw, writer.n)

\* C19: a _load_from_cache that runs concurrently with a _save_to_cache of
\* the same fingerprint observes the complete previous entry (or absence) or
\* the complete new entry, never an empty or partially written record: it
\* returns what it would return before the write or after it.
C19_AtomicWrite ==
    [][ConcurrentLoadStep =>
          lastLoad'.out \in
              { LoadFromCache(writer.before, now, writer.kw, writer.n),
                LoadFromCache(SaveToCache(writer.before, writer.time, writer.kw,
                                          writer.n, writer.rs),
                              now, writer.kw, writer.n) }]_vars

\* the step ends a search_all call that writes the cache
WriteStep ==
    /\ pc = "fanout" /\ pc' # "fanout"
    /\ use_cache /\ results # << >>

\* the step is damage done to the directory from outside the program
DamageStep == files' # files /\ UNCHANGED << callVars, now >>

\* C20: a cache entry changes only through a write for its own fingerprint:
\* every read (hit, miss, expired or corrupted) leaves the directory as it
\* is, timestamps included, and no entry is ever removed, so an expired entry
\* stays until a write for the same fingerprint replaces it.
C20_ReadLeavesEntry ==
    [][~DamageStep =>
          /\ StartStep => files' = files
          /\ DOMAIN files \subseteq DOMAIN files'
          /\ \A path \in DOMAIN files :
                files'[path] # files[path] =>
                    (WriteStep /\ path = GetCachePath(keyword, max_results))]_vars

\* a caching call in its fan-out after a read that found its entry expired,
\* the entry still in the directory
C20_Witness ==
    /\ pc = "fanout"
    /\ use_cache
    /\ GetCachePath(keyword, max_results) \in DOMAIN files
    /\ files[GetCachePath(keyword, max_results)] \notin CorruptContents
    /\ Expired(files[GetCachePath(keyword, max_results)], now)

\* callers c and d both missed, both wrote the same file and both returned,
\* the write of c coming last
WroteLast(c, d) ==
    /\ callers[c].pc = "returned" /\ callers[d].pc = "returned"
    /\ GetCacheKey(callers[c].kw, callers[c].n) = GetCacheKey(callers[d].kw, callers[d].n)
    /\ callers[d].wrote = 1
    /\ callers[c].wrote = 2

\* C21: when two search_all calls for the same fingerprint overlap on a cold
\* cache, both fan out and both write, and once both have returned the file
\* holds exactly the complete result list of the call whose write came
\* last, never a mixture of the two writes and never an unreadable record.
C21_LastWriteWins ==
    \A c, d \in Callers :
        WroteLast(c, d) =>
            files[GetCachePath(callers[c].kw, callers[c].n)] =
                CacheData(callers[c].time, callers[c].kw, callers[c].n, callers[c].results)

\* the file of the call of caller record r
PathOf(r) == GetCachePath(r.kw, r.n)

\* the directory fs with the file at path alone
OnlyFile(fs, path) == [p \in DOMAIN fs \cap {path} |-> fs[p]]

\* C22: searches for different fingerprints do not interfere: under any
\* interleaving a step of a call leaves the file (or absence of a file) of
\* every other fingerprint unchanged, and what the call returns is what it
\* returns with the files of the other fingerprints taken away.
C22_FingerprintsIndependent ==
    [][\A c \in Callers :
          callers'[c] # callers[c] =>
              /\ \A p \in (DOMAIN files \cup DOMAIN files') \ {PathOf(callers'[c])} :
                    /\ p \in DOMAIN files /\ p \in DOMAIN files'
                    /\ files'[p] = files[p]
              /\ callers'[c].pc = "returned" =>
                    callers'[c].ret =
                        IF callers'[c].hit
                        THEN LoadFromCache(OnlyFile(files, PathOf(callers'[c])), now,
                                           callers'[c].kw, callers'[c].n).val
                        ELSE callers'[c].results]_vars

\* two overlapping calls for different fingerprints have both written and
\* returned, each file holding the list of its own call
C22_Witness ==
    /\ \A c \in Callers : callers[c].pc = "returned" /\ callers[c].wrote > 0
    /\ PathOf(callers[1]) # PathOf(callers[2])
    /\ callers[1].results # callers[2].results
    /\ \A c \in Callers :
          files[PathOf(callers[c])] =
              CacheData(callers[c].time, callers[c].kw, callers[c].n, callers[c].results)

\* the blocks of the providers, block p starting after off[p] items, do not
\* overlap
DisjointBlocks(off) ==
    \A p, q \in Providers :
        p # q => \/ off[p] + Len(Contribution(p)) <= off[q]
                 \/ off[q] + Len(Contribution(q)) <= off[p]

\* C23: on a cache miss the list search_all returns holds every item of
\* every provider that did not raise exactly once and nothing else: each
\* provider's items are one contiguous block in the provider's own order,
\* and the aggregator drops, repeats or truncates nothing.
C23_EveryItemOnce ==
    MissReturned =>
        \E off \in [Providers -> 0..Len(ret)] :
            /\ DisjointBlocks(off)
            /\ \A p \in Providers :
                  /\ off[p] + Len(Contribution(p)) <= Len(ret)
                  /\ SubSeq(ret, off[p] + 1, off[p] + Len(Contribution(p))) = Contribution(p)
            /\ Len(ret) = Len(Contribution("eBay")) + Len(Contribution("Amazon"))
                           + Len(Contribution("Google Shopping"))

\* a miss with max_results = 1 returning five items: two of eBay, one of
\* Amazon and two of Google Shopping
C23_Witness ==
    /\ MissReturned
    /\ max_results = 1
    /\ Raising = {}
    /\ Len(tresult["eBay"].items) = 2
    /\ Len(tresult["Amazon"].items) = 1
    /\ Len(tresult["Google Shopping"].items) = 2
    /\ Len(ret) = 5

\* C24: search_all called with use_cache = False neither reads nor writes
\* the cache: it always performs the fan-out, even when an unexpired entry
\* is stored for its fingerprint, and the directory is the same before and
\* after the call.
C24_NoCacheNoTouch ==
    [][/\ (StartStep /\ ~use_cache') =>
            /\ pc' = "fanout" /\ ~hit'
            /\ invoked' = invoked + Len(Registration)
            /\ files' = files
       /\ (pc = "fanout" /\ ~use_cache) => files' = files]_vars

\* a call without cache returned two fresh results although an unexpired
\* entry with another list is stored for its fingerprint
C24_Witness ==
    /\ MissReturned
    /\ ~use_cache
    /\ HasFreshEntry(keyword, max_results)
    /\ Len(ret) = 2
    /\ Len(files[GetCachePath(keyword, max_results)].results) = 1

\* C25: an empty aggregate is never cached: when the fan-out yields no
\* result no file is created or replaced, an expired entry stays as it was,
\* and the next identical call fans out again.
C25_EmptyNeverCached ==
    [][/\ (pc = "fanout" /\ pc' = "returned" /\ results = << >>) =>
            /\ files' = files
            /\ ret' = << >>
       /\ (StartStep /\ pc = "returned" /\ ~hit /\ ret = << >> /\ now' = now
            /\ keyword' = keyword /\ max_results' = max_results
            /\ use_cache /\ use_cache') => pc' = "fanout"]_vars

\* a caching call that found its entry expired returned nothing, and the
\* expired entry is still stored
C25_Witness ==
    /\ MissReturned
    /\ use_cache
    /\ ret = << >>
    /\ requests["eBay"] = 2
    /\ GetCachePath(keyword, max_results) \in DOMAIN files
    /\ Expired(files[GetCachePath(keyword, max_results)], now)

\* the step ends a caching call in which a provider raised and the others
\* returned something
PartialFinishStep ==
    /\ pc = "fanout" /\ pc' = "returned"
    /\ use_cache
    /\ errors # {}
    /\ results # << >>

-----------------------------------------------------------------------------
(* Properties of the handlers (HandlerSpec) *)

\* C27: the /search-products handler returns the first max_results items of
\* the list search_all produced, in the same order: products is a prefix of
\* that list of length min(max_results, length of the list), and
\* total_results is the length of products.
C27_HandlerPrefix ==
    lastHandler.op = "search_products" =>
        LET r == lastHandler.response IN
        /\ Len(r.products) =
              IF lastHandler.n < Len(lastHandler.results)
              THEN lastHandler.n ELSE Len(lastHandler.results)
        /\ \A i \in 1..Len(r.products) : r.products[i] = lastHandler.results[i]
        /\ r.total_results = Len(r.products)

\* three results cut to the first two
C27_Witness ==
    /\ lastHandler.op = "search_products"
    /\ Len(lastHandler.results) = 3
    /\ lastHandler.n = 2
    /\ Len(lastHandler.response.products) = 2

\* the entries of ps that are not the placeholder
Taken(ps) == SelectSeq(ps, LAMBDA e : e # Placeholder)

\* the entries taken from the i-th vibe
TakenFrom(vibes, i) ==
    IF Len(SampleProducts(vibes[i])) < PerVibe
    THEN Len(SampleProducts(vibes[i])) ELSE PerVibe

\* C29: the products list built from suggested_vibes has exactly 5 entries
\* for every number of vibes and of sample products per vibe: at most 2
\* products of each of the first 3 vibes are taken, collection stops at 5,
\* and placeholders pad the list up to 5.
C29_AlwaysFiveProducts ==
    lastHandler.op = "suggest" =>
        LET ps == lastHandler.products
            vs == PySlice(lastHandler.vibes, MaxVibes)
            offered == IF Len(vs) = 0 THEN 0
                       ELSE IF Len(vs) = 1 THEN TakenFrom(vs, 1)
                       ELSE IF Len(vs) = 2 THEN TakenFrom(vs, 1) + TakenFrom(vs, 2)
                       ELSE TakenFrom(vs, 1) + TakenFrom(vs, 2) + TakenFrom(vs, 3)
        IN
        /\ Len(ps) = 5
        /\ Len(Taken(ps)) = IF offered < 5 THEN offered ELSE 5
        /\ \A i \in 1..Len(ps) :
              (i <= Len(Taken(ps))) <=> (ps[i] # Placeholder)
        /\ \A i \in 1..Len(ps) : Len(ps[i].name) <= 20

\* four vibes of three sample products each: five entries taken and none
\* padded
C29_Witness ==
    /\ lastHandler.op = "suggest"
    /\ Len(lastHandler.vibes) = 4
    /\ \A i \in 1..4 : Len(SampleProducts(lastHandler.vibes[i])) = 3
    /\ Len(lastHandler.products) = 5
    /\ Taken(lastHandler.products) = lastHandler.products

-----------------------------------------------------------------------------
(* Properties of the memory manager (MemorySpec) and of /recommend
   (RecommendSpec) *)

\* the interactions table holds a row of user uid
HasStored(uid) == \E i \in 1..Len(interactions) : interactions[i].user_id = uid

\* the step serves a /recommend request whose mood detection answered
RecommendStep ==
    /\ lastHandler'.op = "recommend"
    /\ lastHandler' # lastHandler \/ interactions' # interactions
    /\ lastHandler'.mode # "none"

\* the step adds exactly one row, of the user of the request, to the
\* interactions table
SavesOne ==
    /\ Len(interactions') = Len(interactions) + 1
    /\ SubSeq(interactions', 1, Len(interactions)) = interactions
    /\ interactions'[Len(interactions')].user_id = lastHandler'.user_id

\* what C28 says of a request, unsure being the set of is_clear values that
\* count as not clear
RoutingWith(unsure) ==
    /\ (lastHandler'.mode = "suggestions") <=>
          (lastHandler'.is_clear \in unsure /\ HasStored(lastHandler'.user_id))
    /\ IF lastHandler'.mode = "recommendations" /\ lastHandler'.status = 200
       THEN SavesOne
       ELSE interactions' = interactions
    /\ ~HasStored(lastHandler'.user_id) => lastHandler'.mode # "suggestions"

\* C28 as stated: /recommend takes the suggestion path exactly when the mood
\* detection reports is_clear = false and the user has a stored interaction,
\* and the normal path otherwise; an interaction is saved exactly once per
\* successful normal recommendation and never on the suggestion path.
C28_RoutingOnFalse == [][RecommendStep => RoutingWith({"false"})]_vars

\* C28 amended: the suggestion path is taken exactly when is_clear is falsy
\* (JSON false or null) and the user has a stored interaction; the rest as
\* stated.
C28_RoutingOnFalsy == [][RecommendStep => RoutingWith({"false", "null"})]_vars

\* a request answered with suggestions for a user with one stored
\* interaction, the mood detection having reported is_clear = null
C28_Witness ==
    /\ lastHandler.op = "recommend"
    /\ lastHandler.mode = "suggestions"
    /\ lastHandler.status = 200
    /\ lastHandler.is_clear = "null"
    /\ Len(GetUserHistory(interactions, lastHandler.user_id, HistoryLimit)) = 1

\* C30: after any sequence of get_or_create_user, save_interaction and
\* update_preferences_summary calls the users table holds at most one row
\* per user_id and every row of the interactions table refers to a user_id
\* that has a row in the users table; get_or_create_user for an existing
\* user_id adds no row.
C30_UsersUniqueAndReferenced ==
    /\ \A i, j \in 1..Len(users) : users[i].user_id = users[j].user_id => i = j
    /\ \A i \in 1..Len(interactions) : UserRows(users, interactions[i].user_id) # << >>
    /\ lastHandler.op = "get_or_create_user" =>
          /\ Len(UserRows(users, lastHandler.user_id)) = 1
          /\ lastHandler.out.user_id = lastHandler.user_id

\* get_or_create_user called for a user that existed, both users having
\* rows and the interactions table being full
C30_Witness ==
    /\ lastHandler.op = "get_or_create_user"
    /\ lastHandler.existed
    /\ Len(users) = 2
    /\ Len(interactions) = MaxInteractions
    /\ users[1].preferences_summary = "cozy"

-----------------------------------------------------------------------------
(* Properties of the logger (LogSpec) *)

\* the entries logged so far and still in the file, oldest first
Logged == LoadLines(LogLines(logFile))

\* the last k entries of a list, for 0 <= k <= Len(seq)
LastEntries(seq, k) == SubSeq(seq, Len(seq) - k + 1, Len(seq))

\* a get_recent_logs call with a limit from lowest on that read the file
\* without an error
RecentLogsStep(lowest) ==
    /\ lastHandler'.op = "get_recent_logs"
    /\ lastHandler' # lastHandler
    /\ logFile' = logFile
    /\ ~lastHandler'.failed
    /\ lastHandler'.limit >= lowest

\* the answer of the call is the last min(limit, number of logged entries)
\* entries of the log, oldest first, and so at most limit entries
AnswersLastEntries ==
    LET limit == lastHandler'.limit
        k == IF limit < Len(Logged) THEN limit ELSE Len(Logged)
    IN
    /\ Len(lastHandler'.logs) <= limit
    /\ lastHandler'.logs = LastEntries(Logged, k)
    /\ lastHandler'.total = k

\* C31: for every limit >= 0 and every sequence of logged decisions,
\* get_recent_logs(limit) returns at most limit entries, and they are the
\* last min(limit, number of logged entries) entries of the log in the order
\* they were logged.
C31_RecentLogsLastEntries == [][RecentLogsStep(0) => AnswersLastEntries]_vars

\* the same for every limit >= 1: lines[-limit:] is the tail of the list
\* only when limit is not 0
RecentLogsFromOne == [][RecentLogsStep(1) => AnswersLastEntries]_vars

\* get_recent_logs(0) answered every entry of a log of MaxLogLines lines
RecentLogsZeroReturnsAll ==
    /\ lastHandler.op = "get_recent_logs"
    /\ lastHandler.limit = 0
    /\ lastHandler.total = MaxLogLines
    /\ Len(Logged) = MaxLogLines
====
